---------------------------- MODULE Spec2Model ----------------------------
(***************************************************************************)
(* Force Match: a radial character graph.                                  *)
(*                                                                         *)
(*   utils/dataParser.js  parseCharactersFromTTL, parseConnectionsFromTTL  *)
(*   App.jsx              loadData (parse both documents, install them)    *)
(*   Dashboard.jsx        layout (useMemo), interaction state, render pass *)
(*   Sidebar.jsx, SettingsPanel.jsx   panels and their key handlers        *)
(*                                                                         *)
(* Three specifications share the variables:                               *)
(*   SpecLoad    App's loadData over bounded input documents               *)
(*   SpecLayout  the layout computation applied to bounded inputs          *)
(*   Spec        the mounted Dashboard under its UI events                 *)
(***************************************************************************)
EXTENDS Integers, Sequences, FiniteSets

VARIABLES
    dataTtl,            \* App: text of /data/data.ttl, as parsed quads or malformed
    connectionsTtl,     \* App: text of /data/connections.ttl
    loadPc,             \* App: position of loadData
    loading,            \* App: useState(true)
    error,              \* App: useState(null)
    parsedCharacters,   \* App.loadData: const parsedCharacters
    characters,         \* App state / Dashboard prop
    connections,        \* App state / Dashboard prop
    selectedCharacter,  \* Dashboard: useState(null)
    hoveredCharacterId, \* Dashboard: useState(null)
    isSidebarOpen,      \* Dashboard: useState(false)
    isSettingsOpen,     \* Dashboard: useState(false)
    groupBy,            \* Dashboard: useState('none')
    dimensions,         \* Dashboard: useState({width, height})
    layout,             \* Dashboard: useMemo {positions, groupInfo, characterGroups}
    connectedCharacters, \* Dashboard: useMemo Set of ids connected to the hovered one
    capturedIsSettingsOpen \* Dashboard: isSettingsOpen as the rendered handlers see it

appVars  == <<dataTtl, connectionsTtl, loadPc, loading, error, parsedCharacters>>
dataVars == <<characters, connections>>
dashVars == <<selectedCharacter, hoveredCharacterId, isSidebarOpen, isSettingsOpen,
              groupBy, dimensions, layout, connectedCharacters, capturedIsSettingsOpen>>
vars     == <<appVars, dataVars, dashVars>>

(***************************************************************************)
(* JavaScript values.  null is the empty tuple and a present value v is    *)
(* the one-element tuple <<v>>, so that a nullable string or record can be *)
(* compared with null.                                                     *)
(***************************************************************************)
null == <<>>

Some(v) == <<v>>

(***************************************************************************)
(* Bounds of the model.                                                    *)
(***************************************************************************)
MaxDataQuads == 3

MaxConnQuads == 2

MaxChars == 3

MaxConns == 2

MaxLayoutChars == 4

(***************************************************************************)
(* dataParser.js: the vocabulary.                                          *)
(***************************************************************************)
RDF_TYPE == "http://www.w3.org/1999/02/22-rdf-syntax-ns#type"

CHARACTER_CLASS == "https://swapi.co/vocabulary/Character"

RDFS_LABEL == "http://www.w3.org/2000/01/rdf-schema#label"

BO_TYPE == "http://www.ontotext.com/business-object/type"

VOC_GENDER == "https://swapi.co/vocabulary/gender"

VOC_HOMEWORLD == "https://swapi.co/vocabulary/homeworld"

VOC_HEIGHT == "https://swapi.co/vocabulary/height"

VOC_MASS == "https://swapi.co/vocabulary/mass"

VOC_HAIRCOLOR == "https://swapi.co/vocabulary/hairColor"

VOC_SKINCOLOR == "https://swapi.co/vocabulary/skinColor"

VOC_EYECOLOR == "https://swapi.co/vocabulary/eyeColor"

VOC_BIRTHYEAR == "https://swapi.co/vocabulary/birthYear"

VOC_FILM == "https://swapi.co/vocabulary/film"

VOC_CONNECTEDTO == "https://swapi.co/vocabulary/connectedTo"

Quad(s, p, o) == [subject |-> s, predicate |-> p, object |-> o]

\* A document: n3's parser.parse either throws (malformed) or returns the quads.
Document(qs) == [malformed |-> FALSE, quads |-> qs]

MalformedDocument == [malformed |-> TRUE, quads |-> <<>>]

\* The outcome of a promise: resolve(value) or reject(error).
Resolved(v) == [rejected |-> FALSE, value |-> v]

Rejected == [rejected |-> TRUE, value |-> <<>>]

(***************************************************************************)
(* parseCharactersFromTTL.  The Map `characters` keeps insertion order: it *)
(* is a sequence of records with pairwise distinct ids.                    *)
(***************************************************************************)
NewCharacter(subject) ==
    [id |-> subject, name |-> "", type |-> "", species |-> "", gender |-> "",
     homeworld |-> "", height |-> "", mass |-> "", hairColor |-> "",
     skinColor |-> "", eyeColor |-> "", birthYear |-> "", films |-> <<>>]

\* characters.has(subject)
Has(chars, subject) == \E i \in 1..Len(chars) : chars[i].id = subject

\* the place of characters.get(subject)
IndexOf(chars, subject) == CHOOSE i \in 1..Len(chars) : chars[i].id = subject

\* char.films.includes(object)
Includes(seq, x) == \E i \in 1..Len(seq) : seq[i] = x

\* switch(predicate) { ... }
SetProperty(char, predicate, object) ==
    CASE predicate = RDFS_LABEL    -> [char EXCEPT !.name = object]
      [] predicate = BO_TYPE       -> [char EXCEPT !.type = object, !.species = object]
      [] predicate = VOC_GENDER    -> [char EXCEPT !.gender = object]
      [] predicate = VOC_HOMEWORLD -> [char EXCEPT !.homeworld = object]
      [] predicate = VOC_HEIGHT    -> [char EXCEPT !.height = object]
      [] predicate = VOC_MASS      -> [char EXCEPT !.mass = object]
      [] predicate = VOC_HAIRCOLOR -> [char EXCEPT !.hairColor = object]
      [] predicate = VOC_SKINCOLOR -> [char EXCEPT !.skinColor = object]
      [] predicate = VOC_EYECOLOR  -> [char EXCEPT !.eyeColor = object]
      [] predicate = VOC_BIRTHYEAR -> [char EXCEPT !.birthYear = object]
      [] predicate = VOC_FILM      ->
            IF Includes(char.films, object) THEN char
            ELSE [char EXCEPT !.films = Append(@, object)]
      [] OTHER -> char

\* RegisterCharacter registering the subject of any triple
RegisterCharacterAnySubject(chars, quad) ==
    IF ~Has(chars, quad.subject)
    THEN Append(chars, NewCharacter(quad.subject))
    ELSE chars

\* RegisterCharacter starting the record again at every type assertion
RegisterCharacterReset(chars, quad) ==
    IF quad.predicate = RDF_TYPE /\ quad.object = CHARACTER_CLASS
    THEN IF Has(chars, quad.subject)
         THEN [chars EXCEPT ![IndexOf(chars, quad.subject)] = NewCharacter(quad.subject)]
         ELSE Append(chars, NewCharacter(quad.subject))
    ELSE chars

\* "Check if this is a character": the first if of the forEach body.
RegisterCharacter(chars, quad) ==
    IF quad.predicate = RDF_TYPE /\ quad.object = CHARACTER_CLASS
       /\ ~Has(chars, quad.subject)
    THEN Append(chars, NewCharacter(quad.subject))
    ELSE chars

\* "Extract character properties": the second if of the forEach body.
ExtractProperties(chars, quad) ==
    IF Has(chars, quad.subject)
    THEN LET i == IndexOf(chars, quad.subject)
         IN  [chars EXCEPT ![i] = SetProperty(chars[i], quad.predicate, quad.object)]
    ELSE chars

\* One pass of quads.forEach(quad => ...): both ifs, in this order, per quad.
CharactersForEachQuad(chars, quad) ==
    ExtractProperties(RegisterCharacter(chars, quad), quad)

RECURSIVE CharactersForEach(_, _)
CharactersForEach(chars, quads) ==
    IF quads = <<>> THEN chars
    ELSE CharactersForEach(CharactersForEachQuad(chars, Head(quads)), Tail(quads))

ParseCharactersFromTTL(ttlContent) ==
    IF ttlContent.malformed THEN Rejected
    ELSE Resolved(CharactersForEach(<<>>, ttlContent.quads))

(***************************************************************************)
(* parseConnectionsFromTTL.                                                *)
(***************************************************************************)
ConnectionsForEachQuad(conns, quad) ==
    IF quad.predicate = VOC_CONNECTEDTO
    THEN Append(conns, [source |-> quad.subject, target |-> quad.object])
    ELSE conns

RECURSIVE ConnectionsForEach(_, _)
ConnectionsForEach(conns, quads) ==
    IF quads = <<>> THEN conns
    ELSE ConnectionsForEach(ConnectionsForEachQuad(conns, Head(quads)), Tail(quads))

ParseConnectionsFromTTL(ttlContent) ==
    IF ttlContent.malformed THEN Rejected
    ELSE Resolved(ConnectionsForEach(<<>>, ttlContent.quads))

(***************************************************************************)
(* Numbers.  The layout works on angles of the form a*pi + b with rational *)
(* a and b (gapAngle = 0.05 = 1/20), which are kept exactly: a rational is *)
(* a normalised pair <<numerator, denominator>> and an angle a record      *)
(* [pi |-> a, c |-> b].                                                    *)
(***************************************************************************)
Abs(n) == IF n < 0 THEN -n ELSE n

RECURSIVE GCD(_, _)
GCD(a, b) == IF b = 0 THEN a ELSE GCD(b, a % b)

\* the rational n/d, d # 0, in lowest terms with a positive denominator
Rat(n, d) ==
    LET g == GCD(Abs(n), Abs(d))
        s == IF d < 0 THEN -1 ELSE 1
    IN  <<(s * n) \div g, (s * d) \div g>>

RAdd(p, q) == Rat(p[1] * q[2] + q[1] * p[2], p[2] * q[2])

RNeg(p) == <<-p[1], p[2]>>

RMul(p, q) == Rat(p[1] * q[1], p[2] * q[2])

RDiv(p, q) == Rat(p[1] * q[2], p[2] * q[1])

RLess(p, q) == p[1] * q[2] < q[1] * p[2]

RInt(n) == <<n, 1>>

\* a / b of two JavaScript numbers that are integers: Infinity (or NaN) when b = 0
Infinity == [infinite |-> TRUE]

Angle(a, b) == [pi |-> a, c |-> b]

\* Math.PI
PI == Angle(RInt(1), RInt(0))

\* a plain number as an angle
Num(q) == Angle(RInt(0), q)

AAdd(x, y) == Angle(RAdd(x.pi, y.pi), RAdd(x.c, y.c))

ASub(x, y) == Angle(RAdd(x.pi, RNeg(y.pi)), RAdd(x.c, RNeg(y.c)))

\* q * x for a rational q
AScale(q, x) == Angle(RMul(q, x.pi), RMul(q, x.c))

\* x / n for an integer n
ADivInt(x, n) == IF n = 0 THEN Infinity ELSE AScale(Rat(1, n), x)

\* `${n}` for a non-negative integer n
Digits == <<"0", "1", "2", "3", "4", "5", "6", "7", "8", "9">>

RECURSIVE NumberToString(_)
NumberToString(n) ==
    IF n < 10 THEN Digits[n + 1]
    ELSE NumberToString(n \div 10) \o Digits[(n % 10) + 1]

Min(a, b) == IF a < b THEN a ELSE b

(***************************************************************************)
(* Array.prototype.sort() without a comparator orders strings by UTF-16    *)
(* code units: digits, then upper case, then lower case.  SortOrder lists  *)
(* the bucket keys the model's data can produce in that order.             *)
(***************************************************************************)
SortOrder ==
    <<"1 films", "2 films", "3 films", "4 films", "Droid", "Human", "Unknown",
      "Wookiee", "female", "male">>

Rank(key) == CHOOSE i \in 1..Len(SortOrder) : SortOrder[i] = key

StringLess(a, b) == Rank(a) < Rank(b)

RECURSIVE InsertSorted(_, _)
InsertSorted(sorted, key) ==
    IF sorted = <<>> THEN <<key>>
    ELSE IF StringLess(key, Head(sorted)) THEN <<key>> \o sorted
    ELSE <<Head(sorted)>> \o InsertSorted(Tail(sorted), key)

RECURSIVE Sort(_)
Sort(keys) ==
    IF keys = <<>> THEN <<>>
    ELSE InsertSorted(Sort(SubSeq(keys, 1, Len(keys) - 1)), keys[Len(keys)])

(***************************************************************************)
(* Dashboard.jsx: the layout (useMemo over characters, dimensions,         *)
(* groupBy).  A JavaScript object is a function on its set of keys; the    *)
(* insertion order of the keys of `groups` is kept beside it.              *)
(***************************************************************************)
\* acc[key] = value
Put(obj, key, value) ==
    [k \in (DOMAIN obj) \cup {key} |-> IF k = key THEN value ELSE obj[k]]

\* 'x' or 'y' of a position: center + radius * Math.cos(angle) (or Math.sin)
Coord(center, radius, fn, angle) ==
    [center |-> center, radius |-> radius, fn |-> fn, angle |-> angle]

Position(centerX, centerY, radius, angle) ==
    [x |-> Coord(centerX, radius, "cos", angle),
     y |-> Coord(centerY, radius, "sin", angle)]

CenterX(dims) == Rat(dims.width, 2)

CenterY(dims) == Rat(dims.height, 2)

\* Math.min(width, height) * 0.35
Radius(dims) == RMul(RInt(Min(dims.width, dims.height)), Rat(35, 100))

\* gapAngle without a gap
gapAngleZero == Num(RInt(0))

\* const gapAngle = 0.05
gapAngle == Num(Rat(5, 100))

\* -Math.PI / 2
StartAngle == AScale(Rat(-1, 2), PI)

\* 2 * Math.PI
TwoPi == AScale(RInt(2), PI)

\* UngroupedAngle counting the slots from the last character
UngroupedAngleReversed(index, n) ==
    ASub(AScale(RInt(n - 1 - index), ADivInt(TwoPi, n)), AScale(Rat(1, 2), PI))

\* UngroupedAngle with a step of a full turn
UngroupedAngleFullTurnStep(index, n) ==
    ASub(AScale(RInt(index), TwoPi), AScale(Rat(1, 2), PI))

\* index * angleStep - Math.PI / 2
UngroupedAngle(index, n) == ASub(AScale(RInt(index), ADivInt(TwoPi, n)), AScale(Rat(1, 2), PI))

RECURSIVE UngroupedPositions(_, _, _, _)
UngroupedPositions(acc, chars, i, dims) ==
    IF i > Len(chars) THEN acc
    ELSE UngroupedPositions(
            Put(acc, chars[i].id,
                Position(CenterX(dims), CenterY(dims), Radius(dims),
                         UngroupedAngle(i - 1, Len(chars)))),
            chars, i + 1, dims)

RECURSIVE UngroupedCharacterGroups(_, _, _)
UngroupedCharacterGroups(acc, chars, i) ==
    IF i > Len(chars) THEN acc
    ELSE UngroupedCharacterGroups(
            Put(acc, chars[i].id, [groupKey |-> "default", groupIndex |-> 0]),
            chars, i + 1)

\* GroupKeyOf with a grouping by species as the fall-back of an unrecognized key
GroupKeyOfSpeciesFallback(char, by) ==
    IF by \notin {"gender", "films"} /\ char.species # "" THEN char.species
    ELSE IF by = "gender" /\ char.gender # "" THEN char.gender
    ELSE IF by = "films" /\ Len(char.films) > 0
         THEN NumberToString(Len(char.films)) \o " films"
    ELSE "Unknown"

\* let key = 'Unknown'; if (groupBy === 'species' && char.species) ... 
GroupKeyOf(char, by) ==
    IF by = "species" /\ char.species # "" THEN char.species
    ELSE IF by = "gender" /\ char.gender # "" THEN char.gender
    ELSE IF by = "films" /\ Len(char.films) > 0 THEN NumberToString(Len(char.films)) \o " films"
    ELSE "Unknown"

EmptyGroups == [keys |-> <<>>, members |-> <<>>]

\* AddToGroup starting the bucket again at every character
AddToGroupOverwrite(groups, key, char) ==
    IF key \in DOMAIN groups.members
    THEN [groups EXCEPT !.members = Put(@, key, <<char>>)]
    ELSE [keys |-> Append(groups.keys, key),
          members |-> Put(groups.members, key, <<char>>)]

\* AddToGroup putting the character in front of the bucket (unshift for push)
AddToGroupUnshift(groups, key, char) ==
    IF key \in DOMAIN groups.members
    THEN [groups EXCEPT !.members = Put(@, key, <<char>> \o groups.members[key])]
    ELSE [keys |-> Append(groups.keys, key),
          members |-> Put(groups.members, key, <<char>>)]

\* if (!acc[key]) acc[key] = []; acc[key].push(char)
AddToGroup(groups, key, char) ==
    IF key \in DOMAIN groups.members
    THEN [groups EXCEPT !.members = Put(@, key, Append(groups.members[key], char))]
    ELSE [keys |-> Append(groups.keys, key),
          members |-> Put(groups.members, key, <<char>>)]

\* Groups leaving out the characters without a value for the key
RECURSIVE GroupsSkippingUnknown(_, _, _, _)
GroupsSkippingUnknown(acc, chars, i, by) ==
    IF i > Len(chars) THEN acc
    ELSE GroupsSkippingUnknown(
            IF GroupKeyOf(chars[i], by) = "Unknown" THEN acc
            ELSE AddToGroup(acc, GroupKeyOf(chars[i], by), chars[i]),
            chars, i + 1, by)

RECURSIVE Groups(_, _, _, _)
Groups(acc, chars, i, by) ==
    IF i > Len(chars) THEN acc
    ELSE Groups(AddToGroup(acc, GroupKeyOf(chars[i], by), chars[i]), chars, i + 1, by)

\* GroupKeys in the insertion order of the keys, without the sort
GroupKeysInsertionOrder(groups) == groups.keys

\* Object.keys(groups).sort()
GroupKeys(groups) == Sort(groups.keys)

\* UsableAngle leaving out one gap in all, whatever the number of groups
UsableAngleOneGap(numGroups) == ASub(TwoPi, gapAngle)

\* UsableAngle taking no gap out of the full turn
UsableAngleNoGap(numGroups) == TwoPi

\* (2 * Math.PI) - gapAngle * groupKeys.length
UsableAngle(numGroups) == ASub(TwoPi, AScale(RInt(numGroups), gapAngle))

\* (groupSize / totalCharacters) * usableAngle
GroupAngleSpan(groupSize, totalCharacters, usableAngle) ==
    AScale(Rat(groupSize, totalCharacters), usableAngle)

\* PlaceMembers without the half step: the first member on the bucket's start
RECURSIVE PlaceMembersOnBoundary(_, _, _, _, _, _, _, _)
PlaceMembersOnBoundary(acc, members, j, currentAngle, angleStep, groupKey, groupIndex, dims) ==
    IF j > Len(members) THEN acc
    ELSE LET angle == AAdd(currentAngle, AScale(RInt(j - 1), angleStep))
         IN  PlaceMembersOnBoundary(
                [positions |-> Put(acc.positions, members[j].id,
                                   Position(CenterX(dims), CenterY(dims), Radius(dims), angle)),
                 characterGroups |-> Put(acc.characterGroups, members[j].id,
                                         [groupKey |-> groupKey, groupIndex |-> groupIndex])],
                members, j + 1, currentAngle, angleStep, groupKey, groupIndex, dims)

\* groupMembers.forEach((char, index) => ...): positions and characterGroups
RECURSIVE PlaceMembers(_, _, _, _, _, _, _, _)
PlaceMembers(acc, members, j, currentAngle, angleStep, groupKey, groupIndex, dims) ==
    IF j > Len(members) THEN acc
    ELSE LET angle == AAdd(currentAngle, AScale(Rat(2 * (j - 1) + 1, 2), angleStep))
         IN  PlaceMembers(
                [positions |-> Put(acc.positions, members[j].id,
                                   Position(CenterX(dims), CenterY(dims), Radius(dims), angle)),
                 characterGroups |-> Put(acc.characterGroups, members[j].id,
                                         [groupKey |-> groupKey, groupIndex |-> groupIndex])],
                members, j + 1, currentAngle, angleStep, groupKey, groupIndex, dims)

\* groupKeys.forEach((groupKey, groupIndex) => ...), from the k-th key on
RECURSIVE PlaceGroups(_, _, _, _, _, _, _)
PlaceGroups(acc, groups, groupKeys, k, currentAngle, totalCharacters, dims) ==
    IF k > Len(groupKeys) THEN acc
    ELSE LET groupKey       == groupKeys[k]
             groupMembers   == groups.members[groupKey]
             groupSize      == Len(groupMembers)
             usableAngle    == UsableAngle(Len(groupKeys))
             groupAngleSpan == GroupAngleSpan(groupSize, totalCharacters, usableAngle)
             angleStep      == ADivInt(groupAngleSpan, groupSize)
             startAngle     == currentAngle
             placed         == PlaceMembers([positions |-> acc.positions,
                                             characterGroups |-> acc.characterGroups],
                                            groupMembers, 1, currentAngle, angleStep,
                                            groupKey, k - 1, dims)
             endAngle       == AAdd(currentAngle, groupAngleSpan)
             info           == [name |-> groupKey, startAngle |-> startAngle,
                                endAngle |-> endAngle, centerX |-> CenterX(dims),
                                centerY |-> CenterY(dims), radius |-> Radius(dims)]
         IN  PlaceGroups(
                [positions |-> placed.positions,
                 groupInfo |-> Append(acc.groupInfo, info),
                 characterGroups |-> placed.characterGroups],
                groups, groupKeys, k + 1,
                AAdd(currentAngle, AAdd(groupAngleSpan, gapAngle)),
                totalCharacters, dims)

\* GroupedLayout failing when there is no group to place
GroupedLayoutThrowsOnEmpty(chars, by, dims) ==
    LET groups == Groups(EmptyGroups, chars, 1, by)
        placed == PlaceGroups([positions |-> <<>>, groupInfo |-> <<>>,
                               characterGroups |-> <<>>],
                              groups, GroupKeys(groups), 1, StartAngle, Len(chars), dims)
    IN  [positions |-> placed.positions, groupInfo |-> Some(placed.groupInfo),
         characterGroups |-> placed.characterGroups, threw |-> (GroupKeys(groups) = <<>>)]

\* the grouped branch of the useMemo
GroupedLayout(chars, by, dims) ==
    LET groups == Groups(EmptyGroups, chars, 1, by)
        placed == PlaceGroups([positions |-> <<>>, groupInfo |-> <<>>,
                               characterGroups |-> <<>>],
                              groups, GroupKeys(groups), 1, StartAngle, Len(chars), dims)
    IN  [positions |-> placed.positions, groupInfo |-> Some(placed.groupInfo),
         characterGroups |-> placed.characterGroups, threw |-> FALSE]

\* the 'none' branch of the useMemo
UngroupedLayout(chars, dims) ==
    [positions |-> UngroupedPositions(<<>>, chars, 1, dims), groupInfo |-> null,
     characterGroups |-> UngroupedCharacterGroups(<<>>, chars, 1), threw |-> FALSE]

\* the useMemo callback; `threw` says whether it ended by throwing
Layout(chars, by, dims) ==
    IF by = "none" THEN UngroupedLayout(chars, dims)
    ELSE GroupedLayout(chars, by, dims)

(***************************************************************************)
(* Dashboard.jsx: what the render pass derives from the state.             *)
(***************************************************************************)
\* connectedCharacters (useMemo over hoveredCharacterId, connections)
RECURSIVE ConnectedForEach(_, _, _)
ConnectedForEach(connected, conns, hovered) ==
    IF conns = <<>> THEN connected
    ELSE LET conn == Head(conns)
             c1   == IF Some(conn.source) = hovered
                     THEN connected \cup {conn.target} ELSE connected
             c2   == IF Some(conn.target) = hovered
                     THEN c1 \cup {conn.source} ELSE c1
         IN  ConnectedForEach(c2, Tail(conns), hovered)

\* ConnectedCharacters following outgoing edges only
ConnectedCharactersOutgoing(hovered, conns) ==
    IF hovered = null \/ hovered = Some("") THEN {}
    ELSE {conns[i].target : i \in {j \in 1..Len(conns) : Some(conns[j].source) = hovered}}

ConnectedCharacters(hovered, conns) ==
    IF hovered = null \/ hovered = Some("") THEN {}
    ELSE ConnectedForEach({}, conns, hovered)

\* IsHighlighted looking at the source only
IsHighlightedSourceOnly(conn) == hoveredCharacterId = Some(conn.source)

\* hoveredCharacterId === conn.source || hoveredCharacterId === conn.target
IsHighlighted(conn) ==
    hoveredCharacterId = Some(conn.source) \/ hoveredCharacterId = Some(conn.target)

\* RenderConnection without the position test
RenderConnectionUnchecked(conn) ==
    Some([startPos |-> IF conn.source \in DOMAIN layout.positions
                       THEN layout.positions[conn.source] ELSE null,
          endPos |-> IF conn.target \in DOMAIN layout.positions
                     THEN layout.positions[conn.target] ELSE null,
          isHighlighted |-> IsHighlighted(conn),
          centerX |-> CenterX(dimensions), centerY |-> CenterY(dimensions)])

\* connections.map((conn, index) => ...): null, or the props of one <Connection>
RenderConnection(conn) ==
    IF conn.source \notin DOMAIN layout.positions
       \/ conn.target \notin DOMAIN layout.positions
    THEN null
    ELSE Some([startPos |-> layout.positions[conn.source],
               endPos |-> layout.positions[conn.target],
               isHighlighted |-> IsHighlighted(conn),
               centerX |-> CenterX(dimensions), centerY |-> CenterY(dimensions)])

RenderConnections == [i \in 1..Len(connections) |-> RenderConnection(connections[i])]

(***************************************************************************)
(* Connection.jsx.  A coordinate is center + radius * fn(angle); the sums  *)
(* and products the component forms stay of this shape, for the same fn    *)
(* and angle.                                                              *)
(***************************************************************************)
\* const AFFINITY_FACTOR = 0.85
AFFINITY_FACTOR == Rat(85, 100)

\* q - c for a number q and a coordinate c
NumMinusCoord(q, c) ==
    Coord(RAdd(q, RNeg(c.center)), RNeg(c.radius), c.fn, c.angle)

\* c * q for a coordinate c and a number q
CoordTimes(c, q) == Coord(RMul(c.center, q), RMul(c.radius, q), c.fn, c.angle)

\* c + d for two coordinates over the same fn(angle)
CoordPlus(c, d) == Coord(RAdd(c.center, d.center), RAdd(c.radius, d.radius), c.fn, c.angle)

\* ControlPoint pulling the center towards the point instead
ControlPointFromCenter(pos, centerX, centerY, factor) ==
    [x |-> CoordPlus(Coord(centerX, RInt(0), pos.x.fn, pos.x.angle),
                     CoordTimes(NumMinusCoord(centerX, pos.x), RNeg(factor))),
     y |-> CoordPlus(Coord(centerY, RInt(0), pos.y.fn, pos.y.angle),
                     CoordTimes(NumMinusCoord(centerY, pos.y), RNeg(factor)))]

\* pos.x + (centerX - pos.x) * factor, pos.y + (centerY - pos.y) * factor
ControlPoint(pos, centerX, centerY, factor) ==
    [x |-> CoordPlus(pos.x, CoordTimes(NumMinusCoord(centerX, pos.x), factor)),
     y |-> CoordPlus(pos.y, CoordTimes(NumMinusCoord(centerY, pos.y), factor))]

\* the cubic Bezier curve of one <Connection>: M start C control1, control2, end
Connection(props) ==
    [start    |-> props.startPos,
     control1 |-> ControlPoint(props.startPos, props.centerX, props.centerY, AFFINITY_FACTOR),
     control2 |-> ControlPoint(props.endPos, props.centerX, props.centerY, AFFINITY_FACTOR),
     end      |-> props.endPos]

\* isHovered || isConnectedToHovered: CharacterNode's glowClass
GlowClass(isHovered, isConnectedToHovered) ==
    IF isHovered \/ isConnectedToHovered THEN "animate-pulse-glow" ELSE ""

\* {groupInfo && <svg>{groupInfo.map(...)}</svg>}: null, or one bracket per group
RenderGroupBrackets ==
    IF layout.groupInfo = null THEN null
    ELSE Some([k \in 1..Len(layout.groupInfo[1]) |->
                 [name |-> layout.groupInfo[1][k].name,
                  startAngle |-> layout.groupInfo[1][k].startAngle,
                  endAngle |-> layout.groupInfo[1][k].endAngle]])

\* characters.map((character) => ...): null, or the props of one <CharacterNode>
RenderNode(character) ==
    IF character.id \notin DOMAIN layout.positions THEN null
    ELSE LET isHovered == hoveredCharacterId = Some(character.id)
             isConnectedToHovered == character.id \in connectedCharacters
         IN  Some([position |-> layout.positions[character.id],
                   isHovered |-> isHovered,
                   isConnectedToHovered |-> isConnectedToHovered,
                   glowClass |-> GlowClass(isHovered, isConnectedToHovered)])

\* groupData.groupKey of a character without an entry in characterGroups is a
\* TypeError; so is a layout callback that threw.
RenderThrows ==
    \/ layout.threw
    \/ \E i \in 1..Len(characters) :
          /\ characters[i].id \in DOMAIN layout.positions
          /\ characters[i].id \notin DOMAIN layout.characterGroups

\* Sidebar: if (!character) return null; {isOpen && <backdrop onKeyDown=...>}
SidebarBackdropRendered == selectedCharacter # null /\ isSidebarOpen

\* SettingsPanel: {isOpen && <backdrop onKeyDown=...>}
SettingsBackdropRendered == isSettingsOpen

(***************************************************************************)
(* The inputs of the model.                                                *)
(***************************************************************************)
Character(id, name, species, gender, films) ==
    [NewCharacter(id) EXCEPT !.name = name, !.type = species, !.species = species,
                             !.gender = gender, !.films = films]

\* records as parseCharactersFromTTL builds them
CharPool ==
    <<Character("luke", "Luke Skywalker", "Human", "male", <<"film1", "film2">>),
      Character("leia", "Leia Organa", "Human", "female", <<"film1", "film2">>),
      Character("r2d2", "R2-D2", "Droid", "", <<"film1">>),
      Character("chewie", "", "Wookiee", "male", <<>>),
      Character("han", "Han Solo", "", "male", <<"film2">>)>>

\* edges as parseConnectionsFromTTL builds them: "ghost" is no character, and
\* there are a self-loop and a repeated edge
EdgePool ==
    <<[source |-> "luke", target |-> "leia"],
      [source |-> "leia", target |-> "r2d2"],
      [source |-> "luke", target |-> "ghost"],
      [source |-> "r2d2", target |-> "r2d2"],
      [source |-> "luke", target |-> "leia"]>>

Viewports == {[width |-> 800, height |-> 600], [width |-> 400, height |-> 1000]}

\* RadioValues with a fifth radio input, for a key the layout does not know
RadioValuesWithHomeworld == {"none", "species", "gender", "films", "homeworld"}

\* the values of the radio buttons of SettingsPanel
RadioValues == {"none", "species", "gender", "films"}

\* the keys handed to the layout when it is called on its own
AnyGroupingKeys == RadioValues \cup {"homeworld"}

Keys == {"Escape", "Enter"}

RECURSIVE PickFrom(_, _, _)
\* the elements of pool at the places in `places`, in pool order, from place i on
PickFrom(pool, places, i) ==
    IF i > Len(pool) THEN <<>>
    ELSE (IF i \in places THEN <<pool[i]>> ELSE <<>>) \o PickFrom(pool, places, i + 1)

SmallSubsets(n, max) == {S \in SUBSET (1..n) : Cardinality(S) <= max}

\* the Dashboard's connections prop
ConnectionLists ==
    {PickFrom(EdgePool, S, 1) : S \in SmallSubsets(Len(EdgePool), MaxConns)}

\* the Dashboard's characters prop: App mounts it only when there is a character
CharacterPrefixes ==
    {SubSeq(CharPool, 1, n) : n \in 1..Min(MaxChars, Len(CharPool))}

RECURSIVE Permutations(_)
Permutations(S) ==
    IF S = {} THEN {<<>>}
    ELSE UNION {{<<x>> \o p : p \in Permutations(S \ {x})} : x \in S}

\* every ordering of at most MaxLayoutChars records of the pool, the empty one
\* included
CharacterLists ==
    UNION {Permutations({CharPool[i] : i \in S}) :
              S \in SmallSubsets(Len(CharPool), MaxLayoutChars)}

QuadSeqs(pool, max) == UNION {[1..n -> pool] : n \in 0..max}

DataQuadPool ==
    {Quad("luke", RDF_TYPE, CHARACTER_CLASS),
     Quad("luke", RDFS_LABEL, "Luke Skywalker"),
     Quad("luke", BO_TYPE, "Human"),
     Quad("luke", VOC_FILM, "film1"),
     Quad("luke", VOC_FILM, "film2"),
     Quad("r2d2", RDF_TYPE, CHARACTER_CLASS),
     Quad("r2d2", RDFS_LABEL, "R2-D2")}

ConnQuadPool ==
    {Quad("luke", VOC_CONNECTEDTO, "r2d2"),
     Quad("luke", VOC_CONNECTEDTO, "luke"),
     Quad("r2d2", RDFS_LABEL, "R2-D2")}

DataDocuments ==
    {Document(qs) : qs \in QuadSeqs(DataQuadPool, MaxDataQuads)} \cup {MalformedDocument}

ConnDocuments ==
    {Document(qs) : qs \in QuadSeqs(ConnQuadPool, MaxConnQuads)} \cup {MalformedDocument}

(***************************************************************************)
(* Dashboard.jsx: the state after mounting, and the event handlers.  Each  *)
(* handler ends with the re-render React runs before the next event: the   *)
(* two useMemo values are recomputed from the new state.                   *)
(***************************************************************************)
UnmountedDashboard ==
    /\ selectedCharacter = null
    /\ hoveredCharacterId = null
    /\ isSidebarOpen = FALSE
    /\ isSettingsOpen = FALSE
    /\ groupBy = "none"
    /\ layout = UngroupedLayout(<<>>, dimensions)
    /\ connectedCharacters = {}
    /\ capturedIsSettingsOpen = FALSE

IdleApp ==
    /\ dataTtl = Document(<<>>)
    /\ connectionsTtl = Document(<<>>)
    /\ loadPc = "loaded"
    /\ loading = FALSE
    /\ error = null
    /\ parsedCharacters = characters

Init ==
    /\ characters \in CharacterPrefixes
    /\ connections \in ConnectionLists
    /\ dimensions \in Viewports
    /\ IdleApp
    /\ selectedCharacter = null
    /\ hoveredCharacterId = null
    /\ isSidebarOpen = FALSE
    /\ isSettingsOpen = FALSE
    /\ groupBy = "none"
    /\ layout = Layout(characters, groupBy, dimensions)
    /\ connectedCharacters = ConnectedCharacters(hoveredCharacterId, connections)
    /\ capturedIsSettingsOpen = isSettingsOpen

\* What the handlers leave alone is said against these.
stateVars == <<selectedCharacter, hoveredCharacterId, isSidebarOpen, isSettingsOpen,
               groupBy, dimensions>>

\* Render never running the layout callback again
RenderKeepsLayout ==
    /\ layout' = layout
    /\ connectedCharacters' =
          IF hoveredCharacterId' = hoveredCharacterId
          THEN connectedCharacters
          ELSE ConnectedCharacters(hoveredCharacterId', connections)
    /\ capturedIsSettingsOpen' = isSettingsOpen'

\* The re-render that follows the state change of a handler: each useMemo value
\* is computed again only when one of its dependencies has changed (the props
\* characters and connections never change while the Dashboard is mounted), and
\* the handlers are created again, closing over the state of this render.
Render ==
    /\ layout' = IF <<dimensions', groupBy'>> = <<dimensions, groupBy>>
                 THEN layout
                 ELSE Layout(characters, groupBy', dimensions')
    /\ connectedCharacters' =
          IF hoveredCharacterId' = hoveredCharacterId
          THEN connectedCharacters
          ELSE ConnectedCharacters(hoveredCharacterId', connections)
    /\ capturedIsSettingsOpen' = isSettingsOpen'

\* a node, and so its handlers, exists only for a character with a position
NodeRendered(character) == character.id \in DOMAIN layout.positions

\* HandleNodeClick opening the panel without recording the character
HandleNodeClickOpenOnly(character) ==
    /\ isSidebarOpen' = TRUE
    /\ UNCHANGED <<appVars, dataVars, selectedCharacter, hoveredCharacterId,
                   isSettingsOpen, groupBy, dimensions>>

HandleNodeClick(character) ==
    /\ selectedCharacter' = Some(character)
    /\ isSidebarOpen' = TRUE
    /\ UNCHANGED <<appVars, dataVars, hoveredCharacterId, isSettingsOpen, groupBy, dimensions>>

\* onMouseEnter={() => setHoveredCharacterId(character.id)}
OnMouseEnter(character) ==
    /\ hoveredCharacterId' = Some(character.id)
    /\ UNCHANGED <<appVars, dataVars, selectedCharacter, isSidebarOpen, isSettingsOpen,
                   groupBy, dimensions>>

\* onMouseLeave={() => setHoveredCharacterId(null)}
OnMouseLeave ==
    /\ hoveredCharacterId' = null
    /\ UNCHANGED <<appVars, dataVars, selectedCharacter, isSidebarOpen, isSettingsOpen,
                   groupBy, dimensions>>

\* HandleSidebarClose clearing the selection as well
HandleSidebarCloseClearing ==
    /\ isSidebarOpen' = FALSE
    /\ selectedCharacter' = null
    /\ UNCHANGED <<appVars, dataVars, hoveredCharacterId, isSettingsOpen, groupBy, dimensions>>

\* HandleSidebarClose refusing to close a panel that is not open
HandleSidebarCloseWhenOpen ==
    /\ isSidebarOpen
    /\ isSidebarOpen' = FALSE
    /\ UNCHANGED <<appVars, dataVars, selectedCharacter, hoveredCharacterId,
                   isSettingsOpen, groupBy, dimensions>>

HandleSidebarClose ==
    /\ isSidebarOpen' = FALSE
    /\ UNCHANGED <<appVars, dataVars, selectedCharacter, hoveredCharacterId,
                   isSettingsOpen, groupBy, dimensions>>

\* HandleSettingsToggle closing the detail panel when it flips the flag
HandleSettingsToggleExclusive ==
    /\ isSettingsOpen' = ~isSettingsOpen
    /\ isSidebarOpen' = FALSE
    /\ UNCHANGED <<appVars, dataVars, selectedCharacter, hoveredCharacterId, groupBy, dimensions>>

\* setIsSettingsOpen(!isSettingsOpen), isSettingsOpen being the value the
\* handler closed over when it was rendered
HandleSettingsToggle ==
    /\ isSettingsOpen' = ~capturedIsSettingsOpen
    /\ UNCHANGED <<appVars, dataVars, selectedCharacter, hoveredCharacterId,
                   isSidebarOpen, groupBy, dimensions>>

\* SettingsPanel's onClose={() => setIsSettingsOpen(false)}
SettingsOnClose ==
    /\ isSettingsOpen' = FALSE
    /\ UNCHANGED <<appVars, dataVars, selectedCharacter, hoveredCharacterId,
                   isSidebarOpen, groupBy, dimensions>>

\* HandleGroupByChange dropping the hover with the old layout
HandleGroupByChangeResetHover(value) ==
    /\ groupBy' = value
    /\ hoveredCharacterId' = null
    /\ UNCHANGED <<appVars, dataVars, selectedCharacter, isSidebarOpen, isSettingsOpen, dimensions>>

HandleGroupByChange(value) ==
    /\ groupBy' = value
    /\ UNCHANGED <<appVars, dataVars, selectedCharacter, hoveredCharacterId,
                   isSidebarOpen, isSettingsOpen, dimensions>>

HandleResize(viewport) ==
    /\ dimensions' = viewport
    /\ UNCHANGED <<appVars, dataVars, selectedCharacter, hoveredCharacterId,
                   isSidebarOpen, isSettingsOpen, groupBy>>

\* Sidebar.handleKeyDown, on the backdrop of the detail panel
SidebarHandleKeyDown(key) ==
    /\ SidebarBackdropRendered
    /\ IF key = "Escape" THEN HandleSidebarClose
       ELSE UNCHANGED <<appVars, dataVars, stateVars>>

\* SettingsPanel.handleKeyDown, on the backdrop of the settings panel
SettingsHandleKeyDown(key) ==
    /\ SettingsBackdropRendered
    /\ IF key = "Escape" THEN SettingsOnClose
       ELSE UNCHANGED <<appVars, dataVars, stateVars>>

\* an Escape keydown, delivered to whichever backdrop has the focus
Dismiss == SidebarHandleKeyDown("Escape") \/ SettingsHandleKeyDown("Escape")

Characters == {characters[i] : i \in 1..Len(characters)}

\* One UI event: the handler sets the state, React renders again.
Next ==
    \/ \E character \in Characters :
          NodeRendered(character) /\ HandleNodeClick(character) /\ Render
    \/ \E character \in Characters :
          NodeRendered(character) /\ OnMouseEnter(character) /\ Render
    \/ \E character \in Characters :
          NodeRendered(character) /\ OnMouseLeave /\ Render
    \/ HandleSidebarClose /\ Render
    \/ HandleSettingsToggle /\ Render
    \/ SettingsOnClose /\ Render
    \/ \E value \in RadioValues : HandleGroupByChange(value) /\ Render
    \/ \E viewport \in Viewports : HandleResize(viewport) /\ Render
    \/ \E key \in Keys : SidebarHandleKeyDown(key) /\ Render
    \/ \E key \in Keys : SettingsHandleKeyDown(key) /\ Render

Spec == Init /\ [][Next]_vars

(***************************************************************************)
(* The panel events with the re-render deferred: React re-renders after    *)
(* the setters of an event have been queued, and events dispatched in one  *)
(* task are handled before that re-render, so a handler may run more than  *)
(* once as it was last rendered.  Only the events that leave the useMemo   *)
(* dependencies alone are taken here.                                      *)
(***************************************************************************)
\* no re-render yet: the rendered values and the handlers stay as they are
Deferred == UNCHANGED <<layout, connectedCharacters, capturedIsSettingsOpen>>

\* the re-render of the queued state changes
Flush == UNCHANGED <<appVars, dataVars, stateVars>> /\ Render

NextBatched ==
    \/ \E character \in Characters :
          NodeRendered(character) /\ HandleNodeClick(character) /\ Deferred
    \/ HandleSidebarClose /\ Deferred
    \/ HandleSettingsToggle /\ Deferred
    \/ SettingsOnClose /\ Deferred
    \/ Flush

SpecBatched == Init /\ [][NextBatched]_vars

(***************************************************************************)
(* The layout on its own: the useMemo callback run again whenever one of   *)
(* its dependencies [characters, dimensions, groupBy] changes, for every   *)
(* character list and every key a caller may hand it.                      *)
(***************************************************************************)
InitLayout ==
    /\ characters \in CharacterLists
    /\ groupBy = "none"
    /\ dimensions \in Viewports
    /\ connections = <<>>
    /\ IdleApp
    /\ selectedCharacter = null
    /\ hoveredCharacterId = null
    /\ isSidebarOpen = FALSE
    /\ isSettingsOpen = FALSE
    /\ layout = Layout(characters, groupBy, dimensions)
    /\ connectedCharacters = {}
    /\ capturedIsSettingsOpen = isSettingsOpen

LayoutFrame ==
    UNCHANGED <<appVars, connections, selectedCharacter, hoveredCharacterId,
                isSidebarOpen, isSettingsOpen, connectedCharacters,
                capturedIsSettingsOpen>>

MemoGroupBy(key) ==
    /\ groupBy' = key
    /\ UNCHANGED <<characters, dimensions>>
    /\ layout' = Layout(characters, groupBy', dimensions')
    /\ LayoutFrame

MemoDimensions(viewport) ==
    /\ dimensions' = viewport
    /\ UNCHANGED <<characters, groupBy>>
    /\ layout' = Layout(characters, groupBy', dimensions')
    /\ LayoutFrame

NextLayout ==
    \/ \E key \in AnyGroupingKeys : MemoGroupBy(key)
    \/ \E viewport \in Viewports : MemoDimensions(viewport)

SpecLayout == InitLayout /\ [][NextLayout]_vars

(***************************************************************************)
(* App.jsx: loadData.  Each await ends one step.                           *)
(***************************************************************************)
\* App's render branches: what App returns for the current state
AppRender ==
    IF loading THEN "loading"
    ELSE IF error # null THEN "error"
    ELSE IF Len(characters) = 0 THEN "noCharacters"
    ELSE "dashboard"

\* LoadDataCatch recording no error
LoadDataCatchSilent ==
    /\ error' = null
    /\ loading' = FALSE
    /\ loadPc' = "failed"

InitLoad ==
    /\ dataTtl \in DataDocuments
    /\ connectionsTtl \in ConnDocuments
    /\ loadPc = "start"
    /\ loading = TRUE
    /\ error = null
    /\ parsedCharacters = <<>>
    /\ characters = <<>>
    /\ connections = <<>>
    /\ dimensions = [width |-> 800, height |-> 600]
    /\ UnmountedDashboard

\* catch (err) { setError(err.message); setLoading(false); }
LoadDataCatch ==
    /\ error' = Some("parse error")
    /\ loading' = FALSE
    /\ loadPc' = "failed"

\* setLoading(true) ... const parsedCharacters = await parseCharactersFromTTL(...)
LoadDataCharacters ==
    /\ loadPc = "start"
    /\ LET p == ParseCharactersFromTTL(dataTtl)
       IN  IF p.rejected
           THEN LoadDataCatch /\ UNCHANGED parsedCharacters
           ELSE /\ parsedCharacters' = p.value
                /\ loading' = TRUE
                /\ loadPc' = "charactersParsed"
                /\ UNCHANGED error
    /\ UNCHANGED <<dataTtl, connectionsTtl, dataVars, dashVars>>

\* const parsedConnections = await parseConnectionsFromTTL(...); setCharacters ...
LoadDataConnections ==
    /\ loadPc = "charactersParsed"
    /\ LET p == ParseConnectionsFromTTL(connectionsTtl)
       IN  IF p.rejected
           THEN LoadDataCatch /\ UNCHANGED dataVars
           ELSE /\ characters' = parsedCharacters
                /\ connections' = p.value
                /\ loading' = FALSE
                /\ loadPc' = "loaded"
                /\ UNCHANGED error
    /\ UNCHANGED <<dataTtl, connectionsTtl, parsedCharacters, dashVars>>

NextLoad == LoadDataCharacters \/ LoadDataConnections

SpecLoad == InitLoad /\ [][NextLoad]_vars

(***************************************************************************)
(* Properties.                                                             *)
(***************************************************************************)
CharacterIds == {characters[i].id : i \in 1..Len(characters)}

\* C1 (as stated): a node click selects the character and opens the detail
\* panel, and the sidebar's close action then clears both, the panel flag and
\* the selection.
C1_CloseClearsBoth ==
    [][/\ \A c \in Characters :
             HandleNodeClick(c) => (selectedCharacter' = Some(c) /\ isSidebarOpen')
       /\ HandleSidebarClose => (~isSidebarOpen' /\ selectedCharacter' = null)]_vars

\* C1 (amended): a node click selects the character and opens the detail panel;
\* the sidebar's close action closes the panel and keeps the selection.
C1_CloseKeepsSelection ==
    [][/\ \A c \in Characters :
             HandleNodeClick(c) => (selectedCharacter' = Some(c) /\ isSidebarOpen')
       /\ HandleSidebarClose =>
             (~isSidebarOpen' /\ selectedCharacter' = selectedCharacter)]_vars

C1_Witness == selectedCharacter # null /\ ~isSidebarOpen

\* C2 (as stated): an Escape keydown closes whichever panel is open, and with
\* both panels open it closes the detail panel and leaves the settings panel
\* open.
C2_DismissDetailFirst ==
    [][Dismiss =>
          IF isSidebarOpen
          THEN ~isSidebarOpen' /\ isSettingsOpen' = isSettingsOpen
          ELSE ~isSettingsOpen']_vars

\* C3 (as stated): the layout called with a grouping key outside none, species,
\* gender, films fails instead of producing a layout.
C3_UnknownKeyFails == groupBy \notin RadioValues => layout.threw

\* C3 (amended): the layout called with a grouping key outside none, species,
\* gender, films does not fail: it is a grouped layout in which every character
\* is in the one bucket "Unknown".
C3_UnknownKeyOneBucket ==
    groupBy \notin RadioValues =>
        /\ ~layout.threw
        /\ DOMAIN layout.positions = CharacterIds
        /\ DOMAIN layout.characterGroups = CharacterIds
        /\ \A id \in CharacterIds :
              layout.characterGroups[id] = [groupKey |-> "Unknown", groupIndex |-> 0]
        /\ layout.groupInfo # null
        /\ [k \in 1..Len(layout.groupInfo[1]) |-> layout.groupInfo[1][k].name]
              = IF characters = <<>> THEN <<>> ELSE <<"Unknown">>

C3_Witness ==
    /\ groupBy \notin RadioValues
    /\ \E i, j \in 1..Len(characters) :
          /\ characters[i].species # ""
          /\ characters[j].species # ""
          /\ characters[i].species # characters[j].species

IsTypeAssertion(quad) == quad.predicate = RDF_TYPE /\ quad.object = CHARACTER_CLASS

IsNoTypeAssertion(quad) == ~IsTypeAssertion(quad)

\* the same triples with every type assertion moved before the attribute triples
TypeAssertionsFirst(quads) ==
    SelectSeq(quads, IsTypeAssertion) \o SelectSeq(quads, IsNoTypeAssertion)

RecordOf(chars, subject) ==
    IF Has(chars, subject) THEN Some(chars[IndexOf(chars, subject)]) ELSE null

Subjects(quads) == {quads[i].subject : i \in 1..Len(quads)}

\* C4 (as stated): for every subject the extracted record is the same whether the
\* subject's type assertion comes before or after its attribute triples.
C4_OrderTolerant ==
    loadPc = "charactersParsed" =>
        \A s \in Subjects(dataTtl.quads) :
            RecordOf(parsedCharacters, s)
                = RecordOf(CharactersForEach(<<>>, TypeAssertionsFirst(dataTtl.quads)), s)

\* C5 (as stated): no edge of the extracted sequence has its source equal to its
\* target.
C5_NoSelfLoop ==
    loadPc = "loaded" =>
        \A i \in 1..Len(connections) : connections[i].source # connections[i].target

\* the i-th edge is on screen and carries the highlighted flag
FlaggedHighlighted(i) ==
    RenderConnections[i] # null /\ RenderConnections[i][1].isHighlighted

HoveredIsEndpoint(conn) ==
    hoveredCharacterId # null /\ hoveredCharacterId[1] \in {conn.source, conn.target}

\* C6 (as stated): an edge is flagged highlighted iff a node is hovered and it is
\* the edge's source or target.
C6_HighlightedIffEndpoint ==
    \A i \in 1..Len(connections) : FlaggedHighlighted(i) <=> HoveredIsEndpoint(connections[i])

\* C6 (amended): an edge the render pass emits (both endpoints have a position)
\* is flagged highlighted iff a node is hovered and it is the edge's source or
\* target; an edge with an endpoint that is no character is not emitted and so
\* never flagged.
C6_RenderedHighlightedIffEndpoint ==
    \A i \in 1..Len(connections) :
        IF {connections[i].source, connections[i].target} \subseteq CharacterIds
        THEN /\ RenderConnections[i] # null
             /\ RenderConnections[i][1].isHighlighted <=> HoveredIsEndpoint(connections[i])
        ELSE ~FlaggedHighlighted(i)

C6_Witness ==
    \E i \in 1..Len(connections) :
        /\ FlaggedHighlighted(i)
        /\ hoveredCharacterId = Some(connections[i].target)
        /\ connections[i].source # connections[i].target

\* the nodes on screen with the glow of a highlighted node
HighlightedNodes ==
    {id \in CharacterIds :
        \E i \in 1..Len(characters) :
            /\ characters[i].id = id
            /\ RenderNode(characters[i]) # null
            /\ RenderNode(characters[i])[1].glowClass # ""}

OtherEndpoints(id) ==
    {connections[i].target : i \in {j \in 1..Len(connections) : connections[j].source = id}}
    \cup
    {connections[i].source : i \in {j \in 1..Len(connections) : connections[j].target = id}}

\* C7: the highlighted nodes are the hovered node and every node at the other end
\* of an edge whose source or target is the hovered node; none when nothing is
\* hovered.
C7_HighlightedNodes ==
    HighlightedNodes =
        IF hoveredCharacterId = null THEN {}
        ELSE ({hoveredCharacterId[1]} \cup OtherEndpoints(hoveredCharacterId[1]))
                \cap CharacterIds

C7_Witness ==
    /\ hoveredCharacterId # null
    /\ \E i \in 1..Len(connections) :
          /\ connections[i].target = hoveredCharacterId[1]
          /\ connections[i].source # hoveredCharacterId[1]
          /\ connections[i].source \in HighlightedNodes

\* C8: a step that changes groupBy leaves hoveredCharacterId, selectedCharacter
\* and both panel flags as they were, and the layout is the one of the new key.
C8_SetGroupingFrame ==
    [][groupBy' # groupBy =>
          /\ UNCHANGED <<hoveredCharacterId, selectedCharacter, isSidebarOpen, isSettingsOpen>>
          /\ layout' = Layout(characters, groupBy', dimensions)]_vars

C8_Witness ==
    /\ groupBy = "species"
    /\ hoveredCharacterId # null
    /\ selectedCharacter # null
    /\ isSidebarOpen
    /\ isSettingsOpen

\* C9: the settings button flips isSettingsOpen, and a step that changes
\* isSettingsOpen leaves the detail-panel flag, the selection, the hover and
\* groupBy as they were.
C9_ToggleSettingsFrame ==
    [][/\ HandleSettingsToggle => isSettingsOpen' = ~isSettingsOpen
       /\ isSettingsOpen' # isSettingsOpen =>
             UNCHANGED <<isSidebarOpen, selectedCharacter, hoveredCharacterId, groupBy>>]_vars

\* both panels open
C9_Witness == isSidebarOpen /\ isSettingsOpen /\ selectedCharacter # null

\* C10: in every reachable state every event has a next state (hover, unhover
\* and select for every character, closeDetail, setGrouping for every key,
\* toggleSettingsPanel, close settings), and the render pass that ends an event
\* throws nothing.
C10_EventsTotal ==
    /\ ~RenderThrows
    /\ \A c \in Characters :
          /\ ENABLED (NodeRendered(c) /\ OnMouseEnter(c))
          /\ ENABLED (NodeRendered(c) /\ OnMouseLeave)
          /\ ENABLED (NodeRendered(c) /\ HandleNodeClick(c))
    /\ ENABLED HandleSidebarClose
    /\ \A value \in RadioValues : ENABLED HandleGroupByChange(value)
    /\ ENABLED HandleSettingsToggle
    /\ ENABLED SettingsOnClose

C10_Witness ==
    /\ groupBy = "films"
    /\ hoveredCharacterId # null
    /\ selectedCharacter # null
    /\ ~isSidebarOpen
    /\ isSettingsOpen

\* a parse of one of the two documents has failed in this load
ParseFailed ==
    \/ loadPc # "start" /\ dataTtl.malformed
    \/ loadPc \notin {"start", "charactersParsed"} /\ connectionsTtl.malformed

\* C11: when the parse of either document fails the load ends in the error state
\* with the error recorded and shown, neither the characters nor the connections
\* are installed, and at no point of a load with a malformed document does App
\* show the Dashboard.
C11_ParseFailureNoPartialGraph ==
    /\ ParseFailed =>
          /\ loadPc = "failed"
          /\ error # null
          /\ ~loading
          /\ characters = <<>>
          /\ connections = <<>>
          /\ AppRender = "error"
    /\ (dataTtl.malformed \/ connectionsTtl.malformed) => AppRender # "dashboard"

\* the characters document parsed to a character, then the connections document failed
C11_Witness ==
    /\ loadPc = "failed"
    /\ ~dataTtl.malformed
    /\ connectionsTtl.malformed
    /\ parsedCharacters # <<>>

\* C12: a load that extracts no character finishes with no error recorded (App
\* shows "No Characters Found", not the error screen), and the layout of the
\* empty character list is the empty position mapping, computed without throwing,
\* for the key none and for every grouped key.
C12_EmptyGraphNoError ==
    (loadPc = "loaded" /\ characters = <<>>) =>
        /\ error = null
        /\ AppRender = "noCharacters"
        /\ \A key \in RadioValues : \A viewport \in Viewports :
              LET l == Layout(characters, key, viewport)
              IN  /\ ~l.threw
                  /\ l.positions = <<>>
                  /\ l.characterGroups = <<>>
                  /\ l.groupInfo = IF key = "none" THEN null ELSE Some(<<>>)

\* a document with triples and no type assertion among them
C12_Witness ==
    /\ loadPc = "loaded"
    /\ characters = <<>>
    /\ Len(dataTtl.quads) > 0

\* the i-th edge has an endpoint that is no character
Dangling(i) == ~({connections[i].source, connections[i].target} \subseteq CharacterIds)

\* the connects-to triples that state the edges of the connections prop, in order
ConnectedToQuads ==
    [i \in 1..Len(connections) |->
        Quad(connections[i].source, VOC_CONNECTEDTO, connections[i].target)]

\* C13: the edge extractor keeps every connects-to triple as an edge, whether or
\* not its endpoints are characters; the render pass goes over every edge of the connections prop, an edge
\* with an endpoint absent from the character list included; for such an edge it
\* emits nothing, for an edge with both endpoints known it emits a curve between
\* the two positions, and it throws nothing.
C13_DanglingEdgeSkipped ==
    /\ ParseConnectionsFromTTL(Document(ConnectedToQuads)) = Resolved(connections)
    /\ DOMAIN RenderConnections = 1..Len(connections)
    /\ \A i \in 1..Len(connections) :
          IF Dangling(i)
          THEN RenderConnections[i] = null
          ELSE /\ RenderConnections[i] # null
               /\ RenderConnections[i][1].startPos = layout.positions[connections[i].source]
               /\ RenderConnections[i][1].endPos = layout.positions[connections[i].target]
    /\ ~RenderThrows

\* a dangling edge beside an edge that is drawn
C13_Witness ==
    \E i, j \in 1..Len(connections) :
        /\ Dangling(i)
        /\ connections[i].source \in CharacterIds
        /\ ~Dangling(j)
        /\ RenderConnections[j] # null
        /\ groupBy # "none"

\* the subjects of the type assertions of a document
TypedSubjects(quads) ==
    {quads[i].subject : i \in {j \in 1..Len(quads) : IsTypeAssertion(quads[j])}}

\* C14: the extraction result holds a record for exactly the subjects that have
\* a type assertion in the document; a subject with attribute triples and no type
\* assertion has none.
C14_UntypedExcluded ==
    loadPc \in {"charactersParsed", "loaded"} =>
        {parsedCharacters[i].id : i \in 1..Len(parsedCharacters)}
            = TypedSubjects(dataTtl.quads)

\* a typed subject beside a subject that has a label and no type assertion
C14_Witness ==
    /\ loadPc = "loaded"
    /\ parsedCharacters # <<>>
    /\ \E i \in 1..Len(dataTtl.quads) :
          /\ dataTtl.quads[i].predicate = RDFS_LABEL
          /\ dataTtl.quads[i].subject \notin TypedSubjects(dataTtl.quads)

\* the i-th triple is a type assertion of a subject already type-asserted before it
RepeatedTypeAssertion(quads, i) ==
    /\ IsTypeAssertion(quads[i])
    /\ \E j \in 1..(i - 1) : IsTypeAssertion(quads[j]) /\ quads[j].subject = quads[i].subject

\* the document without its repeated type assertions, from place i on
RECURSIVE WithoutRepeatedTypeAssertions(_, _)
WithoutRepeatedTypeAssertions(quads, i) ==
    IF i > Len(quads) THEN <<>>
    ELSE (IF RepeatedTypeAssertion(quads, i) THEN <<>> ELSE <<quads[i]>>)
            \o WithoutRepeatedTypeAssertions(quads, i + 1)

\* C15: a repeated type assertion changes nothing: the result is the one of the
\* document without its repeated type assertions (so what was written between
\* two assertions of a subject is still there), and it holds one record per id.
C15_RegistrationIdempotent ==
    loadPc \in {"charactersParsed", "loaded"} =>
        /\ parsedCharacters
              = CharactersForEach(<<>>, WithoutRepeatedTypeAssertions(dataTtl.quads, 1))
        /\ \A i, j \in 1..Len(parsedCharacters) :
              parsedCharacters[i].id = parsedCharacters[j].id => i = j

\* type assertion, attribute, type assertion again: the attribute is in the record
C15_Witness ==
    /\ loadPc = "charactersParsed"
    /\ Len(dataTtl.quads) = 3
    /\ IsTypeAssertion(dataTtl.quads[1])
    /\ dataTtl.quads[2].subject = dataTtl.quads[1].subject
    /\ dataTtl.quads[2].predicate \in {RDFS_LABEL, VOC_FILM}
    /\ dataTtl.quads[3] = dataTtl.quads[1]
    /\ Len(parsedCharacters) = 1
    /\ parsedCharacters[1].name # "" \/ parsedCharacters[1].films # <<>>

\* slot i of n on the circle: the angle i * (2 pi / n) - pi / 2
SlotAngle(i, n) == Angle(Rat(4 * i - n, 2 * n), RInt(0))

\* C16: with the key none the character at input index i (from 0) is at slot i
\* of the circle, whatever its attributes, and there are no group spans; group
\* spans exist iff the key is not none, one at least when there is a character.
C16_NoneKeepsInputOrder ==
    /\ groupBy = "none" =>
          /\ DOMAIN layout.positions = CharacterIds
          /\ \A i \in 1..Len(characters) :
                layout.positions[characters[i].id]
                    = Position(CenterX(dimensions), CenterY(dimensions), Radius(dimensions),
                               SlotAngle(i - 1, Len(characters)))
    /\ (layout.groupInfo # null) <=> (groupBy # "none")
    /\ (RenderGroupBrackets # null) <=> (groupBy # "none")
    /\ (groupBy # "none" /\ characters # <<>>) => Len(layout.groupInfo[1]) >= 1

\* the key none with an input order that is neither sorted by id nor by species
C16_Witness ==
    /\ groupBy = "none"
    /\ Len(characters) = 3
    /\ characters[1].id = "r2d2"
    /\ characters[2].id = "luke"
    /\ characters[3].id = "leia"
    /\ dimensions.width = 400

\* the value of the attribute a recognized key names, "" when the character lacks it
ResolvedAttribute(char, by) ==
    CASE by = "species" -> char.species
      [] by = "gender"  -> char.gender
      [] by = "films"   -> IF Len(char.films) = 0 THEN ""
                           ELSE NumberToString(Len(char.films)) \o " films"

BucketName(char, by) ==
    IF ResolvedAttribute(char, by) = "" THEN "Unknown" ELSE ResolvedAttribute(char, by)

\* the buckets the grouped branch builds for the current characters and key
Buckets == Groups(EmptyGroups, characters, 1, groupBy)

\* the keys of the buckets that hold the character
BucketsOf(char) ==
    {k \in DOMAIN Buckets.members :
        \E j \in 1..Len(Buckets.members[k]) : Buckets.members[k][j] = char}

RECURSIVE SumOfSizes(_, _)
SumOfSizes(members, keys) ==
    IF keys = {} THEN 0
    ELSE LET k == CHOOSE x \in keys : TRUE
         IN  Len(members[k]) + SumOfSizes(members, keys \ {k})

\* C17: for the keys species, gender and films the buckets are a partition of
\* the characters: every character is in exactly one bucket, the one named by its
\* attribute value, or "Unknown" when it has none; the bucket sizes add up to the
\* number of characters; and the layout records that bucket as the character's.
C17_BucketsPartition ==
    groupBy \in RadioValues \ {"none"} =>
        /\ \A i \in 1..Len(characters) :
              /\ BucketsOf(characters[i]) = {BucketName(characters[i], groupBy)}
              /\ layout.characterGroups[characters[i].id].groupKey
                    = BucketName(characters[i], groupBy)
        /\ SumOfSizes(Buckets.members, DOMAIN Buckets.members) = Len(characters)
        /\ \A k \in DOMAIN Buckets.members : Len(Buckets.members[k]) >= 1
        /\ {layout.groupInfo[1][k].name : k \in 1..Len(layout.groupInfo[1])}
              = DOMAIN Buckets.members

\* two characters share a bucket, a third lacks the attribute
C17_Witness ==
    /\ groupBy = "gender"
    /\ \E i, j, k \in 1..Len(characters) :
          /\ i # j
          /\ characters[i].gender = "male"
          /\ characters[j].gender = "male"
          /\ characters[k].gender = ""
          /\ layout.characterGroups[characters[k].id].groupKey = "Unknown"

\* the names of the group spans of a layout, in the order they are laid out
SpanNames(l) == [k \in 1..Len(l.groupInfo[1]) |-> l.groupInfo[1][k].name]

\* C18: the buckets are laid out in ascending order of their key strings, each
\* character's groupIndex is the place of its bucket in that order, and the
\* bucket order and every character's groupIndex are the same for every
\* permutation of the input character list.
C18_BucketsSortedByKey ==
    groupBy # "none" =>
        /\ \A k \in 1..(Len(layout.groupInfo[1]) - 1) :
              StringLess(SpanNames(layout)[k], SpanNames(layout)[k + 1])
        /\ \A id \in CharacterIds :
              SpanNames(layout)[layout.characterGroups[id].groupIndex + 1]
                  = layout.characterGroups[id].groupKey
        /\ \A p \in Permutations({characters[i] : i \in 1..Len(characters)}) :
              LET l == Layout(p, groupBy, dimensions)
              IN  /\ SpanNames(l) = SpanNames(layout)
                  /\ \A id \in CharacterIds :
                        l.characterGroups[id] = layout.characterGroups[id]

\* the first bucket in key order is not the bucket of the first character
C18_Witness ==
    /\ groupBy = "species"
    /\ Len(characters) = 3
    /\ characters[1].species = "Wookiee"
    /\ characters[2].species = "Human"
    /\ characters[3].species = "Droid"
    /\ SpanNames(layout) = <<"Droid", "Human", "Wookiee">>

\* rational bounds of pi: 333/106 < pi < 355/113
PiLow == Rat(333, 106)

PiHigh == Rat(355, 113)

\* a lower bound of the value a*pi + b of an angle
LowerBound(x) ==
    RAdd(RMul(x.pi, IF RLess(x.pi, RInt(0)) THEN PiHigh ELSE PiLow), x.c)

\* x < y for two angles, decided with the bounds of pi
AngleLess(x, y) == RLess(RInt(0), LowerBound(ASub(y, x)))

\* the angle at which a character is placed
AngleOf(id) == layout.positions[id].x.angle

\* C19: in a grouped layout, of two characters of the same bucket the one
\* earlier in the input list is placed at the smaller angle.
C19_StablePartition ==
    groupBy # "none" =>
        \A i, j \in 1..Len(characters) :
            (/\ i < j
             /\ layout.characterGroups[characters[i].id].groupKey
                   = layout.characterGroups[characters[j].id].groupKey)
            => AngleLess(AngleOf(characters[i].id), AngleOf(characters[j].id))

\* two characters of one bucket with a character of another bucket between them
\* in the input, the later of the two being the smaller by id
C19_Witness ==
    /\ groupBy = "species"
    /\ Len(characters) = 3
    /\ characters[1].id = "luke"
    /\ characters[2].id = "r2d2"
    /\ characters[3].id = "leia"
    /\ AngleLess(AngleOf("luke"), AngleOf("leia"))

\* endAngle - startAngle of the spans from the k-th on, added up
RECURSIVE SumOfSpans(_, _)
SumOfSpans(spans, k) ==
    IF k > Len(spans) THEN Num(RInt(0))
    ELSE AAdd(ASub(spans[k].endAngle, spans[k].startAngle), SumOfSpans(spans, k + 1))

\* C20: in a grouped layout of at least one character the spans of the buckets
\* and one gap of 0.05 per bucket add up to 2 pi, and the running angle after the
\* last bucket (its end angle plus the gap) is -pi/2 plus one full turn.
C20_SpansAndGapsFullTurn ==
    (groupBy # "none" /\ characters # <<>>) =>
        LET spans == layout.groupInfo[1]
        IN  /\ AAdd(SumOfSpans(spans, 1), Angle(RInt(0), Rat(Len(spans), 20)))
                  = Angle(RInt(2), RInt(0))
            /\ AAdd(spans[Len(spans)].endAngle, Angle(RInt(0), Rat(1, 20)))
                  = Angle(Rat(3, 2), RInt(0))
            /\ spans[1].startAngle = Angle(Rat(-1, 2), RInt(0))

\* two buckets of unequal sizes
C20_Witness ==
    /\ groupBy = "films"
    /\ Len(characters) = 3
    /\ Len(layout.groupInfo[1]) = 2
    /\ dimensions.height = 1000

\* four characters grouped into two buckets of sizes 3 and 1
ThreeAndOne ==
    /\ groupBy # "none"
    /\ Len(characters) = 4
    /\ Len(layout.groupInfo[1]) = 2
    /\ {Len(Buckets.members[k]) : k \in DOMAIN Buckets.members} = {1, 3}

\* endAngle - startAngle of the k-th span
SpanOf(k) == ASub(layout.groupInfo[1][k].endAngle, layout.groupInfo[1][k].startAngle)

\* the number of characters in the bucket of the k-th span
SizeOf(k) == Len(Buckets.members[layout.groupInfo[1][k].name])

\* C21 (as stated): four characters in two buckets of sizes 3 and 1: the bucket
\* of 3 spans 3/4 * (2 pi - 0.05) and the bucket of 1 spans 1/4 * (2 pi - 0.05),
\* the usable angle being 2 pi minus one gap.
C21_UsableAngleMinusOneGap ==
    ThreeAndOne =>
        \A k \in 1..2 : SpanOf(k) = AScale(Rat(SizeOf(k), 4), Angle(RInt(2), Rat(-5, 100)))

\* C21 (amended): four characters in two buckets of sizes 3 and 1: the bucket of
\* 3 spans 3/4 * (2 pi - 0.10) and the bucket of 1 spans 1/4 * (2 pi - 0.10), the
\* usable angle being 2 pi minus one gap of 0.05 per bucket.
C21_UsableAngleMinusGapPerBucket ==
    ThreeAndOne =>
        \A k \in 1..2 : SpanOf(k) = AScale(Rat(SizeOf(k), 4), Angle(RInt(2), Rat(-10, 100)))

\* luke, chewie and han are male, leia is female
C21_Witness ==
    /\ ThreeAndOne
    /\ groupBy = "gender"
    /\ SpanNames(layout) = <<"female", "male">>
    /\ SizeOf(2) = 3

\* the angle is a whole number of turns: k * 2 pi for an integer k
WholeTurns(x) == x.c = RInt(0) /\ RMul(x.pi, Rat(1, 2))[2] = 1

\* C22: the ungrouped layout of N >= 1 characters has exactly N positions, the
\* one of the character at input index i (from 0) being the point of the circle
\* of the layout radius around the center at the angle -pi/2 + i * (2 pi / N);
\* the radius is positive and no two of the N angles differ by a whole number of
\* turns, so the positions are pairwise distinct.
C22_UngroupedDistinctPositions ==
    (groupBy = "none" /\ characters # <<>>) =>
        LET N == Len(characters)
            angle(i) == AAdd(Angle(Rat(-1, 2), RInt(0)), Angle(Rat(2 * i, N), RInt(0)))
        IN  /\ Cardinality(DOMAIN layout.positions) = N
            /\ RLess(RInt(0), Radius(dimensions))
            /\ \A i \in 0..(N - 1) :
                  LET p == layout.positions[characters[i + 1].id]
                  IN  /\ p.x = [center |-> Rat(dimensions.width, 2),
                                radius |-> Radius(dimensions), fn |-> "cos",
                                angle |-> angle(i)]
                      /\ p.y = [center |-> Rat(dimensions.height, 2),
                                radius |-> Radius(dimensions), fn |-> "sin",
                                angle |-> angle(i)]
            /\ \A i, j \in 1..N :
                  i # j => /\ ~WholeTurns(ASub(AngleOf(characters[i].id),
                                               AngleOf(characters[j].id)))
                           /\ layout.positions[characters[i].id]
                                 # layout.positions[characters[j].id]

\* four characters, a quarter turn apart
C22_Witness ==
    /\ groupBy = "none"
    /\ Len(characters) = 4
    /\ AngleOf(characters[4].id) = Angle(RInt(1), RInt(0))

\* C23: for every key of the settings panel and every character list (distinct
\* ids), the position mapping has an entry for every character and for nothing
\* else: as many positions as characters.
C23_EveryCharacterPositioned ==
    groupBy \in RadioValues =>
        /\ DOMAIN layout.positions = CharacterIds
        /\ Cardinality(DOMAIN layout.positions) = Len(characters)
        /\ \A i \in 1..Len(characters) :
              layout.positions[characters[i].id].x.fn = "cos"

\* a grouped layout with a character that lacks the attribute of the key
C23_Witness ==
    /\ groupBy = "films"
    /\ Len(characters) = 4
    /\ \E i \in 1..Len(characters) :
          /\ characters[i].films = <<>>
          /\ characters[i].id \in DOMAIN layout.positions

\* C24: in every state the Dashboard can reach, whatever was hovered, selected,
\* opened or regrouped on the way, the layout it holds is the value the layout
\* computation gives for the current characters, grouping key and dimensions
\* alone; so two states with the same three inputs hold identical mappings.
C24_LayoutDeterminedByInputs == layout = Layout(characters, groupBy, dimensions)

\* a layout held across hover, selection, both panels, a regrouping and a resize
C24_Witness ==
    /\ groupBy = "gender"
    /\ dimensions = [width |-> 400, height |-> 1000]
    /\ hoveredCharacterId # null
    /\ selectedCharacter # null
    /\ isSidebarOpen
    /\ isSettingsOpen
    /\ Len(characters) = 3

\* the point (centerX, centerY) as a position with the direction of pos
CenterAs(pos) ==
    [x |-> Coord(CenterX(dimensions), RInt(0), pos.x.fn, pos.x.angle),
     y |-> Coord(CenterY(dimensions), RInt(0), pos.y.fn, pos.y.angle)]

\* center + (1 - affinity) * (pos - center), pos being on the layout circle
TowardsCenter(pos, affinity) ==
    [x |-> Coord(CenterX(dimensions), RMul(RAdd(RInt(1), RNeg(affinity)), Radius(dimensions)),
                 "cos", pos.x.angle),
     y |-> Coord(CenterY(dimensions), RMul(RAdd(RInt(1), RNeg(affinity)), Radius(dimensions)),
                 "sin", pos.y.angle)]

\* C25: the curve of every edge on screen starts and ends at the positions of its
\* source and target, and its control points are start + (center - start) * a
\* and end + (center - end) * a for the affinity a = 0.85 of the component; the
\* same expression gives the endpoint itself for a = 0 and the center for a = 1.
C25_ControlPoints ==
    \A i \in 1..Len(connections) :
        RenderConnections[i] # null =>
            LET props == RenderConnections[i][1]
                curve == Connection(props)
                cx    == props.centerX
                cy    == props.centerY
            IN  /\ curve.start = layout.positions[connections[i].source]
                /\ curve.end = layout.positions[connections[i].target]
                /\ curve.control1 = TowardsCenter(curve.start, Rat(85, 100))
                /\ curve.control2 = TowardsCenter(curve.end, Rat(85, 100))
                /\ ControlPoint(curve.start, cx, cy, RInt(0)) = curve.start
                /\ ControlPoint(curve.end, cx, cy, RInt(0)) = curve.end
                /\ ControlPoint(curve.start, cx, cy, RInt(1)) = CenterAs(curve.start)
                /\ ControlPoint(curve.end, cx, cy, RInt(1)) = CenterAs(curve.end)

\* an edge drawn in a grouped layout on the portrait viewport
C25_Witness ==
    /\ groupBy = "species"
    /\ dimensions = [width |-> 400, height |-> 1000]
    /\ \E i \in 1..Len(connections) :
          /\ RenderConnections[i] # null
          /\ connections[i].source # connections[i].target

\* C26: in a grouped layout the first bucket starts at -pi/2 and each further
\* bucket, in sorted key order, starts exactly 0.05 after the end of the one
\* before it; every span has a positive length and the last one ends before the
\* first one starts again a full turn on, so no two bucket arcs overlap.
C26_BucketsSeparatedByGap ==
    (groupBy # "none" /\ characters # <<>>) =>
        LET spans == layout.groupInfo[1]
            K     == Len(layout.groupInfo[1])
        IN  /\ spans[1].startAngle = Angle(Rat(-1, 2), RInt(0))
            /\ \A k \in 1..K : AngleLess(spans[k].startAngle, spans[k].endAngle)
            /\ \A k \in 1..(K - 1) :
                  /\ spans[k + 1].startAngle
                        = AAdd(spans[k].endAngle, Angle(RInt(0), Rat(5, 100)))
                  /\ AngleLess(spans[k].endAngle, spans[k + 1].startAngle)
            /\ AngleLess(spans[K].endAngle,
                         AAdd(spans[1].startAngle, Angle(RInt(2), RInt(0))))

\* four buckets in a row
C26_Witness ==
    /\ groupBy = "species"
    /\ SpanNames(layout) = <<"Droid", "Human", "Unknown", "Wookiee">>

\* C27: in a grouped layout member j (from 0) of a bucket of s members whose
\* span runs from startAngle to endAngle is placed at
\* startAngle + (j + 0.5) * ((endAngle - startAngle) / s), which is strictly
\* between startAngle and endAngle: no node is on a bucket boundary or in a gap.
C27_MembersCenteredInSpan ==
    groupBy # "none" =>
        \A k \in 1..Len(layout.groupInfo[1]) :
            LET span    == layout.groupInfo[1][k]
                members == Buckets.members[span.name]
                s       == Len(members)
            IN  \A j \in 0..(s - 1) :
                    LET angle == AngleOf(members[j + 1].id)
                    IN  /\ angle = AAdd(span.startAngle,
                                        AScale(Rat(2 * j + 1, 2 * s),
                                               ASub(span.endAngle, span.startAngle)))
                        /\ AngleLess(span.startAngle, angle)
                        /\ AngleLess(angle, span.endAngle)

\* a bucket of three members beside a bucket of one
C27_Witness ==
    /\ ThreeAndOne
    /\ groupBy = "gender"
    /\ SpanNames(layout) = <<"Unknown", "male">>
    /\ AngleLess(layout.groupInfo[1][2].startAngle, AngleOf("han"))

\* C28: whenever the detail panel is open a character is selected, one of the
\* characters prop, so the Sidebar has a record to show.
C28_OpenPanelHasSelection ==
    isSidebarOpen =>
        /\ selectedCharacter # null
        /\ selectedCharacter[1] \in Characters

\* the panel opened again on another character after a close
C28_Witness ==
    /\ isSidebarOpen
    /\ Len(characters) = 3
    /\ selectedCharacter = Some(characters[3])
    /\ groupBy = "films"
    /\ ~isSettingsOpen


\* C29: two consecutive toggleSettingsPanel events restore the settings flag,
\* also when both are handled by the same rendered handler: in every state a
\* toggle event negates the flag when it is as rendered, and puts back the
\* rendered value when the flag has changed since the render (a toggle
\* already handled by this rendered handler).
C29_TwoTogglesRestore ==
    ENABLED (/\ HandleSettingsToggle
             /\ isSettingsOpen' = IF isSettingsOpen = capturedIsSettingsOpen
                                  THEN ~capturedIsSettingsOpen
                                  ELSE capturedIsSettingsOpen)

\* C30: after any sequence of UI events the grouping key is one of none,
\* species, gender and films, and the layout never puts a character into the
\* "Unknown" bucket for an unrecognized key: a character rendered in "Unknown"
\* lacks the attribute the key names.
C30_GroupingKeyRecognized ==
    /\ groupBy \in {"none", "species", "gender", "films"}
    /\ groupBy # "none" =>
          \A i \in 1..Len(characters) :
             layout.characterGroups[characters[i].id].groupKey = "Unknown" =>
                ResolvedAttribute(characters[i], groupBy) = ""

\* witness: the settings panel opened and gender chosen, the characters are
\* grouped by gender with one of them, who has none, in "Unknown"
C30_Witness ==
    /\ groupBy = "gender"
    /\ isSettingsOpen
    /\ \E i \in 1..Len(characters) :
          layout.characterGroups[characters[i].id].groupKey = "Unknown"

=============================================================================
